---- MODULE Spec2Model ----
(***************************************************************************)
(* A model of the dualhashkey crate (src/src/lib.rs): the 64-bit           *)
(* DualHashKey, its constructors, accessors, derivations and conversions.  *)
(*                                                                         *)
(* Machine integers are modelled at their real width as bit vectors: a     *)
(* u32 is a function [0..31 -> {0,1}] and a u64 a function                  *)
(* [0..63 -> {0,1}], index i being the bit of weight 2^i.  (TLC's own      *)
(* integers are 32-bit signed and cannot hold a u32, let alone a u64.)     *)
(***************************************************************************)
EXTENDS Naturals, Sequences, FiniteSets

VARIABLES
    key,    \* the key the caller currently holds: None or Some(DualHashKey)
    op,     \* name of the operation that ran last
    self,   \* receiver (&self) of the last operation, None for constructors
    arg,    \* arguments of the last operation, as a tuple
    ret,    \* what the last operation returned
    ub,     \* TRUE once from_raw_unchecked was called with its precondition broken
    map,    \* the keys of an ordered collection keyed by DualHashKey
    scan    \* the last range query on map: [k0, lower, upper, out], or None

vars == <<key, op, self, arg, ret, ub, map, scan>>

----------------------------------------------------------------------------
(* Bounds of the model *)

\* how many sample u32 values the key operations draw their inputs from
MaxSample == 2
\* how many sample u32 values the keys of the ordered collection are built from
ScanSample == 2
\* how many keys the ordered collection holds at most
MaxKeys == 3

----------------------------------------------------------------------------
(* Machine integers *)

U32_BITS == 32
U64_BITS == 64

U32Idx == 0 .. (U32_BITS - 1)
U64Idx == 0 .. (U64_BITS - 1)

U32_ZERO == [i \in U32Idx |-> 0]
U64_ZERO == [i \in U64Idx |-> 0]
\* u32::MAX
U32_MAX == [i \in U32Idx |-> 1]

\* a & b, a | b, !a on integers of one width
BitAnd(a, b) == [i \in DOMAIN a |-> IF a[i] = 1 /\ b[i] = 1 THEN 1 ELSE 0]
BitOr(a, b) == [i \in DOMAIN a |-> IF a[i] = 1 \/ b[i] = 1 THEN 1 ELSE 0]
BitNot(a) == [i \in DOMAIN a |-> 1 - a[i]]

\* a << n and a >> n on a u64 (logical shifts, n < 64)
Shl(a, n) == [i \in U64Idx |-> IF i >= n THEN a[i - n] ELSE 0]
Shr(a, n) == [i \in U64Idx |-> IF i + n < U64_BITS THEN a[i + n] ELSE 0]

\* (x as u64) for a u32 x: zero extension
AsU64(x) == [i \in U64Idx |-> IF i \in DOMAIN x THEN x[i] ELSE 0]
\* (x as u32) for a u64 x: truncation to the low 32 bits
AsU32(x) == [i \in U32Idx |-> x[i]]

\* unsigned comparison of two integers of one width, as core::cmp::Ordering:
\* the most significant bit in which they differ decides
RECURSIVE CmpFrom(_, _, _)
CmpFrom(a, b, i) ==
    IF a[i] < b[i] THEN "Less"
    ELSE IF a[i] > b[i] THEN "Greater"
    ELSE IF i = 0 THEN "Equal"
    ELSE CmpFrom(a, b, i - 1)

CmpUnsigned(a, b) == CmpFrom(a, b, Cardinality(DOMAIN a) - 1)

None == <<>>
Some(x) == <<x>>
IsSome(o) == Len(o) = 1
Unwrap(o) == o[1]

----------------------------------------------------------------------------
(* Constants of the crate *)

LOW_MASK == AsU64(U32_MAX)
HIGH_MASK == BitNot(AsU64(U32_MAX))
HIGH_SHIFT == 32

\* NonZeroU64::MIN is 1, NonZeroU64::MAX is u64::MAX
MIN == [hash |-> [i \in U64Idx |-> IF i = 0 THEN 1 ELSE 0]]
MAX == [hash |-> [i \in U64Idx |-> 1]]

----------------------------------------------------------------------------
(* The external hasher const_fnv1a_hash: 32-bit FNV-1a.  The running hash  *)
(* is kept as two 16-bit limbs <<hi, lo>> so that the wrapping u32         *)
(* multiplication stays inside TLC's integers.  A byte slice is a sequence *)
(* of 0..255; a &str is the sequence of its UTF-8 bytes.                   *)

FNV_OFFSET_BASIS_32 == <<33052, 40389>>  \* 0x811c9dc5
FNV_PRIME_32 == <<256, 403>>             \* 0x01000193

RECURSIVE XorNat(_, _)
XorNat(a, b) ==
    IF a = 0 THEN b
    ELSE IF b = 0 THEN a
    ELSE (((a % 2) + (b % 2)) % 2) + 2 * XorNat(a \div 2, b \div 2)

\* h.wrapping_mul(FNV_PRIME_32)
WrappingMulPrime(h) ==
    LET p == h[2] * FNV_PRIME_32[2]
    IN  << (h[1] * FNV_PRIME_32[2] + h[2] * FNV_PRIME_32[1] + (p \div (2^16))) % (2^16),
           p % (2^16) >>

RECURSIVE FnvLoop(_, _)
FnvLoop(h, bytes) ==
    IF bytes = <<>> THEN h
    ELSE FnvLoop(WrappingMulPrime(<<h[1], XorNat(h[2], Head(bytes))>>), Tail(bytes))

\* the two limbs as a u32
LimbsToU32(h) ==
    [i \in U32Idx |-> IF i < 16 THEN (h[2] \div (2^i)) % 2 ELSE (h[1] \div (2^(i - 16))) % 2]

fnv1a_hash_32(bytes) == LimbsToU32(FnvLoop(FNV_OFFSET_BASIS_32, bytes))
fnv1a_hash_str_32(str) == fnv1a_hash_32(str)

----------------------------------------------------------------------------
(* struct DualHashKey { hash: NonZeroU64 } and its raw-form methods *)

NonZeroU64_new(n) == IF n = U64_ZERO THEN None ELSE Some(n)

\* from_raw without the NonZeroU64::new check
from_raw_unvalidated(hash) == Some([hash |-> hash])

from_raw(hash) ==
    LET nz == NonZeroU64_new(hash)
    IN  IF IsSome(nz) THEN Some([hash |-> Unwrap(nz)]) ELSE None

\* from_raw_dual with the two arguments packed the other way round
from_raw_dual_reversed(high, low) ==
    from_raw(BitOr(Shl(AsU64(low), HIGH_SHIFT), AsU64(high)))

from_raw_dual(high, low) == from_raw(BitOr(Shl(AsU64(high), HIGH_SHIFT), AsU64(low)))

from_raw_high(high) == from_raw(Shl(AsU64(high), HIGH_SHIFT))

\* The unsafe constructor.  Its outcomes as a set: the key itself when the
\* precondition hash != 0 holds; otherwise the call is undefined behaviour
\* and any bit pattern may come out, the forbidden all-zero word included.
from_raw_unchecked(hash) ==
    IF hash # U64_ZERO THEN {[hash |-> hash]}
    ELSE {[hash |-> U64_ZERO], MIN, MAX}

get_hash(k) == k.hash
get_hash_raw(k) == k.hash

get_hash_high_half(k) == AsU32(Shr(get_hash_raw(k), HIGH_SHIFT))
get_hash_low_half(k) == AsU32(BitAnd(get_hash_raw(k), LOW_MASK))

is_hash_low_half_set(k) == get_hash_low_half(k) # U32_ZERO
is_hash_low_half_clear(k) == get_hash_low_half(k) = U32_ZERO

\* swapped that passes the low half twice
swapped_low_twice(k) == from_raw_dual(get_hash_low_half(k), get_hash_low_half(k))

swapped(k) == from_raw_dual(get_hash_high_half(k), get_hash_low_half(k))

\* with_high_half_raw that keeps the wrong half of the receiver
with_high_half_raw_wrong_mask(k, high) ==
    from_raw(BitOr(BitAnd(get_hash(k), HIGH_MASK), Shl(AsU64(high), HIGH_SHIFT)))

with_high_half_raw(k, high) ==
    from_raw(BitOr(BitAnd(get_hash(k), LOW_MASK), Shl(AsU64(high), HIGH_SHIFT)))

with_low_half_raw(k, low) ==
    from_raw(BitOr(BitAnd(get_hash(k), HIGH_MASK), AsU64(low)))

\* get_hash_low_half_min_raw that leaves the low half as it is
get_hash_low_half_min_raw_uncleared(k) == get_hash_raw(k)
\* get_hash_low_half_min_raw that masks with LOW_MASK
get_hash_low_half_min_raw_wrong_mask(k) == BitAnd(get_hash_raw(k), LOW_MASK)
\* get_hash_low_half_max_raw that fills the high half
get_hash_low_half_max_raw_wrong_mask(k) == BitOr(get_hash_raw(k), HIGH_MASK)

get_hash_low_half_min_raw(k) == BitAnd(get_hash_raw(k), HIGH_MASK)
get_hash_low_half_max_raw(k) == BitOr(get_hash_raw(k), LOW_MASK)

get_hash_low_half_min(k) == from_raw(get_hash_low_half_min_raw(k))

\* the set of outcomes of the unsafe block
get_hash_low_half_max(k) == from_raw_unchecked(get_hash_low_half_max_raw(k))

\* the order of the words read as i64: a set top bit makes a word negative
cmp_signed(a, b) ==
    IF a.hash[U64_BITS - 1] # b.hash[U64_BITS - 1]
    THEN IF a.hash[U64_BITS - 1] = 1 THEN "Less" ELSE "Greater"
    ELSE CmpUnsigned(a.hash, b.hash)

\* #[derive(PartialOrd, Ord)]: the order of the one field, hash
cmp(a, b) == CmpUnsigned(a.hash, b.hash)

(* Methods for the dual (hashed) form *)

from_dual_bytes(high, low) == from_raw_dual(fnv1a_hash_32(high), fnv1a_hash_32(low))
from_dual_str(high, low) == from_raw_dual(fnv1a_hash_str_32(high), fnv1a_hash_str_32(low))
from_high_bytes(high) == from_raw_high(fnv1a_hash_32(high))
from_high_str(high) == from_raw_high(fnv1a_hash_str_32(high))
with_high_half_bytes(k, high) == with_high_half_raw(k, fnv1a_hash_32(high))
with_high_half_str(k, high) == with_high_half_raw(k, fnv1a_hash_str_32(high))
with_low_half_bytes(k, low) == with_low_half_raw(k, fnv1a_hash_32(low))
with_low_half_str(k, low) == with_low_half_raw(k, fnv1a_hash_str_32(low))

(* Conversions *)

Ok(k) == <<"Ok", k>>
Err(msg) == <<"Err", msg>>
IsOk(r) == r[1] = "Ok"
IsErr(r) == r[1] = "Err"

\* Option::ok_or
ok_or(o, msg) == IF IsSome(o) THEN Ok(Unwrap(o)) ELSE Err(msg)

try_from_u64(value) == ok_or(from_raw(value), "value given to DHK::from_raw is zero")
try_from_bytes(value) ==
    ok_or(from_high_bytes(value), "generated hash of high-half bytes is zero")
\* try_from_str with the message of try_from_bytes
try_from_str_copied_message(value) ==
    ok_or(from_high_str(value), "generated hash of high-half bytes is zero")

try_from_str(value) ==
    ok_or(from_high_str(value), "generated hash of high-half string is zero")

\* From<NonZeroU64>
from_nonzero(hash) == [hash |-> hash]

----------------------------------------------------------------------------
(* An ordered collection keyed by DualHashKey (the ORDEREDMAP of the type's *)
(* documentation), reduced to its key set and its inclusive range query.   *)

\* the least key of a non-empty set under Ord
MinKey(S) == CHOOSE k \in S : \A j \in S : cmp(k, j) # "Greater"

RECURSIVE Ascending(_)
Ascending(S) ==
    IF S = {} THEN <<>>
    ELSE LET m == MinKey(S) IN <<m>> \o Ascending(S \ {m})

\* the keys k of S with lower <= k <= upper, in ascending order
range(S, lower, upper) ==
    Ascending({k \in S : cmp(lower, k) # "Greater" /\ cmp(k, upper) # "Greater"})

----------------------------------------------------------------------------
(* Inputs *)

\* where bit j of a sample number lands in the sampled u32
SamplePos(j) == IF j = 0 THEN 0 ELSE IF j = 1 THEN 31 ELSE IF j = 2 THEN 15 ELSE 16

\* sample number n as a u32: 0, 1, 0x80000000, 0x80000001, 0x00008000, ...
SampleU32(n) ==
    [i \in U32Idx |->
        IF \E j \in 0 .. 3 : SamplePos(j) = i /\ ((n \div (2^j)) % 2) = 1 THEN 1 ELSE 0]

\* the first n samples and u32::MAX
U32Values(n) == {SampleU32(m) : m \in 0 .. (n - 1)} \cup {U32_MAX}

\* the u64 whose upper 32 bits are h and whose lower 32 bits are l
Word(h, l) == [i \in U64Idx |-> IF i < U32_BITS THEN l[i] ELSE h[i - U32_BITS]]

U32Inputs == U32Values(MaxSample)
U64Inputs == {Word(h, l) : h \in U32Inputs, l \in U32Inputs}
ScanInputs == U32Values(ScanSample)

\* byte slices: the empty one, and two 4-byte inputs whose FNV-1a hash is 0
BytesInputs == { <<>>, <<204, 36, 49, 196>>, <<224, 77, 159, 203>> }

\* strings as UTF-8: "root/mid/low", "root/mid/low/name", and "b0ccrhg",
\* whose FNV-1a hash is 0
StrInputs ==
    { <<114, 111, 111, 116, 47, 109, 105, 100, 47, 108, 111, 119>>,
      <<114, 111, 111, 116, 47, 109, 105, 100, 47, 108, 111, 119, 47, 110, 97, 109, 101>>,
      <<98, 48, 99, 99, 114, 104, 103>> }

----------------------------------------------------------------------------
(* The state machine: a caller that holds one key and applies the crate's  *)
(* operations to it, in any order.                                         *)

Init ==
    /\ key = None
    /\ op = "init"
    /\ self = None
    /\ arg = <<>>
    /\ ret = None
    /\ ub = FALSE
    /\ map = {}
    /\ scan = None

\* the record of a call: its name, its receiver and its arguments
Called(name, receiver, args) ==
    /\ op' = name
    /\ self' = receiver
    /\ arg' = args
    /\ UNCHANGED <<ub, map, scan>>

UseConst ==
    \E k \in {MIN, MAX} :
        /\ op' = "const"
        /\ self' = None
        /\ arg' = <<>>
        /\ ret' = k
        /\ key' = Some(k)
        /\ UNCHANGED <<ub, map, scan>>

FromRawDual ==
    \E h \in U32Inputs, l \in U32Inputs :
        /\ ret' = from_raw_dual(h, l)
        /\ key' = IF IsSome(ret') THEN ret' ELSE key
        /\ Called("from_raw_dual", None, <<h, l>>)

FromRawHigh ==
    \E h \in U32Inputs :
        /\ ret' = from_raw_high(h)
        /\ key' = IF IsSome(ret') THEN ret' ELSE key
        /\ Called("from_raw_high", None, <<h>>)

FromRaw ==
    \E w \in U64Inputs :
        /\ ret' = from_raw(w)
        /\ key' = IF IsSome(ret') THEN ret' ELSE key
        /\ Called("from_raw", None, <<w>>)

FromDualBytes ==
    \E h \in BytesInputs, l \in BytesInputs :
        /\ ret' = from_dual_bytes(h, l)
        /\ key' = IF IsSome(ret') THEN ret' ELSE key
        /\ Called("from_dual_bytes", None, <<h, l>>)

FromDualStr ==
    \E h \in StrInputs, l \in StrInputs :
        /\ ret' = from_dual_str(h, l)
        /\ key' = IF IsSome(ret') THEN ret' ELSE key
        /\ Called("from_dual_str", None, <<h, l>>)

FromHighBytes ==
    \E h \in BytesInputs :
        /\ ret' = from_high_bytes(h)
        /\ key' = IF IsSome(ret') THEN ret' ELSE key
        /\ Called("from_high_bytes", None, <<h>>)

FromHighStr ==
    \E h \in StrInputs :
        /\ ret' = from_high_str(h)
        /\ key' = IF IsSome(ret') THEN ret' ELSE key
        /\ Called("from_high_str", None, <<h>>)

Swapped ==
    /\ IsSome(key)
    /\ ret' = swapped(Unwrap(key))
    /\ key' = IF IsSome(ret') THEN ret' ELSE key
    /\ Called("swapped", key, <<>>)

WithHighHalfRaw ==
    /\ IsSome(key)
    /\ \E v \in U32Inputs :
        /\ ret' = with_high_half_raw(Unwrap(key), v)
        /\ key' = IF IsSome(ret') THEN ret' ELSE key
        /\ Called("with_high_half_raw", key, <<v>>)

WithLowHalfRaw ==
    /\ IsSome(key)
    /\ \E v \in U32Inputs :
        /\ ret' = with_low_half_raw(Unwrap(key), v)
        /\ key' = IF IsSome(ret') THEN ret' ELSE key
        /\ Called("with_low_half_raw", key, <<v>>)

WithHighHalfBytes ==
    /\ IsSome(key)
    /\ \E b \in BytesInputs :
        /\ ret' = with_high_half_bytes(Unwrap(key), b)
        /\ key' = IF IsSome(ret') THEN ret' ELSE key
        /\ Called("with_high_half_bytes", key, <<b>>)

WithHighHalfStr ==
    /\ IsSome(key)
    /\ \E s \in StrInputs :
        /\ ret' = with_high_half_str(Unwrap(key), s)
        /\ key' = IF IsSome(ret') THEN ret' ELSE key
        /\ Called("with_high_half_str", key, <<s>>)

WithLowHalfBytes ==
    /\ IsSome(key)
    /\ \E b \in BytesInputs :
        /\ ret' = with_low_half_bytes(Unwrap(key), b)
        /\ key' = IF IsSome(ret') THEN ret' ELSE key
        /\ Called("with_low_half_bytes", key, <<b>>)

WithLowHalfStr ==
    /\ IsSome(key)
    /\ \E s \in StrInputs :
        /\ ret' = with_low_half_str(Unwrap(key), s)
        /\ key' = IF IsSome(ret') THEN ret' ELSE key
        /\ Called("with_low_half_str", key, <<s>>)

GetHashLowHalfMin ==
    /\ IsSome(key)
    /\ ret' = get_hash_low_half_min(Unwrap(key))
    /\ key' = IF IsSome(ret') THEN ret' ELSE key
    /\ Called("get_hash_low_half_min", key, <<>>)

\* returns Self, through the unsafe constructor
GetHashLowHalfMax ==
    /\ IsSome(key)
    /\ \E k \in get_hash_low_half_max(Unwrap(key)) :
        /\ op' = "get_hash_low_half_max"
        /\ self' = key
        /\ arg' = <<>>
        /\ ret' = k
        /\ key' = Some(k)
        /\ ub' = (ub \/ get_hash_low_half_max_raw(Unwrap(key)) = U64_ZERO)
        /\ UNCHANGED <<map, scan>>

\* self.cmp(&other) for another key of the caller's making
Compare ==
    /\ IsSome(key)
    /\ \E h \in U32Inputs, l \in U32Inputs :
        LET other == from_raw_dual(h, l)
        IN  /\ IsSome(other)
            /\ op' = "cmp"
            /\ self' = key
            /\ arg' = <<Unwrap(other)>>
            /\ ret' = cmp(Unwrap(key), Unwrap(other))
            /\ UNCHANGED <<key, ub, map, scan>>

TryFromU64 ==
    \E w \in U64Inputs :
        /\ ret' = try_from_u64(w)
        /\ key' = IF IsOk(ret') THEN Some(ret'[2]) ELSE key
        /\ Called("try_from_u64", None, <<w>>)

TryFromBytes ==
    \E b \in BytesInputs :
        /\ ret' = try_from_bytes(b)
        /\ key' = IF IsOk(ret') THEN Some(ret'[2]) ELSE key
        /\ Called("try_from_bytes", None, <<b>>)

TryFromStr ==
    \E s \in StrInputs :
        /\ ret' = try_from_str(s)
        /\ key' = IF IsOk(ret') THEN Some(ret'[2]) ELSE key
        /\ Called("try_from_str", None, <<s>>)

\* a NonZeroU64 is never 0: the type rules it out
FromNonZeroU64 ==
    \E w \in U64Inputs \ {U64_ZERO} :
        /\ op' = "from_nonzero"
        /\ self' = None
        /\ arg' = <<w>>
        /\ ret' = from_nonzero(w)
        /\ key' = Some(from_nonzero(w))
        /\ UNCHANGED <<ub, map, scan>>

Next ==
    \/ UseConst
    \/ FromRawDual
    \/ FromRawHigh
    \/ FromRaw
    \/ FromDualBytes
    \/ FromDualStr
    \/ FromHighBytes
    \/ FromHighStr
    \/ Swapped
    \/ WithHighHalfRaw
    \/ WithLowHalfRaw
    \/ WithHighHalfBytes
    \/ WithHighHalfStr
    \/ WithLowHalfBytes
    \/ WithLowHalfStr
    \/ GetHashLowHalfMin
    \/ GetHashLowHalfMax
    \/ Compare
    \/ TryFromU64
    \/ TryFromBytes
    \/ TryFromStr
    \/ FromNonZeroU64

Spec == Init /\ [][Next]_vars

(* The state machine of a range query: keys are inserted into the ordered  *)
(* collection, and the keys below one key's high half are scanned with the *)
(* bounds get_hash_low_half_min (MIN when it gives none) and               *)
(* get_hash_low_half_max.  The scan borrows the collection: nothing is     *)
(* inserted until it is dropped.                                           *)

Insert ==
    /\ scan = None
    /\ Cardinality(map) < MaxKeys
    /\ \E h \in ScanInputs, l \in ScanInputs :
        LET k == from_raw_dual(h, l)
        IN  /\ IsSome(k)
            /\ map' = map \cup {Unwrap(k)}
            /\ UNCHANGED <<key, op, self, arg, ret, ub, scan>>

RangeQuery ==
    /\ scan = None
    /\ \E h \in ScanInputs, l \in ScanInputs :
        LET k == from_raw_dual(h, l)
        IN  /\ IsSome(k)
            /\ \E upper \in get_hash_low_half_max(Unwrap(k)) :
                LET lo == get_hash_low_half_min(Unwrap(k))
                    lower == IF IsSome(lo) THEN Unwrap(lo) ELSE MIN
                IN  scan' = Some([k0 |-> Unwrap(k), lower |-> lower, upper |-> upper,
                                  out |-> range(map, lower, upper)])
            /\ ub' = (ub \/ get_hash_low_half_max_raw(Unwrap(k)) = U64_ZERO)
            /\ UNCHANGED <<key, op, self, arg, ret, map>>

DropScan ==
    /\ scan # None
    /\ scan' = None
    /\ UNCHANGED <<key, op, self, arg, ret, ub, map>>

NextScan ==
    \/ Insert
    \/ RangeQuery
    \/ DropScan

ScanSpec == Init /\ [][NextScan]_vars

----------------------------------------------------------------------------
(* Properties *)

\* the halves of a key read off its bits directly, and its word
Hi(k) == [i \in U32Idx |-> k.hash[i + U32_BITS]]
Lo(k) == [i \in U32Idx |-> k.hash[i]]
NonZero(k) == k.hash # U64_ZERO

OptionOps ==
    { "from_raw", "from_raw_dual", "from_raw_high", "from_dual_bytes", "from_dual_str",
      "from_high_bytes", "from_high_str", "swapped", "with_high_half_raw",
      "with_low_half_raw", "with_high_half_bytes", "with_high_half_str",
      "with_low_half_bytes", "with_low_half_str", "get_hash_low_half_min" }
SelfOps == {"get_hash_low_half_max", "from_nonzero", "const"}
ResultOps == {"try_from_u64", "try_from_bytes", "try_from_str"}

\* the word the last raw operation was to pack, from its receiver and arguments
PackedWord ==
    CASE op = "from_raw" -> arg[1]
      [] op = "from_raw_dual" -> Word(arg[1], arg[2])
      [] op = "from_raw_high" -> Word(arg[1], U32_ZERO)
      [] op = "with_high_half_raw" -> Word(arg[1], Lo(Unwrap(self)))
      [] op = "with_low_half_raw" -> Word(Hi(Unwrap(self)), arg[1])
      [] op = "swapped" -> Word(Lo(Unwrap(self)), Hi(Unwrap(self)))
      [] op = "get_hash_low_half_min" -> Word(Hi(Unwrap(self)), U32_ZERO)

RawOps ==
    { "from_raw", "from_raw_dual", "from_raw_high", "with_high_half_raw",
      "with_low_half_raw", "swapped", "get_hash_low_half_min" }

\* C1: every key a safe operation produces, and the key the caller holds after
\* any sequence of them, has a packed word different from 0; a raw operation
\* whose packed word would be 0 returns None instead of a key.
C1_NonZeroInvariant ==
    /\ ~ub
    /\ IsSome(key) => NonZero(Unwrap(key))
    /\ op \in OptionOps => (IsSome(ret) => NonZero(Unwrap(ret)))
    /\ op \in SelfOps => NonZero(ret)
    /\ op \in ResultOps => (IsOk(ret) => NonZero(ret[2]))
    /\ op \in RawOps => (PackedWord = U64_ZERO => ret = None)

\* a replacement that would pack the all-zero word returned None, and the
\* caller still holds a valid key
C1_Witness ==
    /\ op = "with_low_half_raw"
    /\ PackedWord = U64_ZERO
    /\ ret = None
    /\ IsSome(key)

\* C2: the keys a range query returns, bounded below by get_hash_low_half_min(k0)
\* (MIN when that is None) and above by get_hash_low_half_max(k0), are exactly the
\* keys of the collection whose high half is k0's, in ascending low-half order.
C2_RangeQuery ==
    IsSome(scan) =>
        LET q == Unwrap(scan)
            lo == get_hash_low_half_min(q.k0)
        IN  /\ q.lower = IF IsSome(lo) THEN Unwrap(lo) ELSE MIN
            /\ q.upper \in get_hash_low_half_max(q.k0)
            /\ {q.out[i] : i \in 1 .. Len(q.out)} =
                    {k \in map : get_hash_high_half(k) = get_hash_high_half(q.k0)}
            /\ \A i \in 1 .. (Len(q.out) - 1) :
                    CmpUnsigned(get_hash_low_half(q.out[i]),
                                get_hash_low_half(q.out[i + 1])) = "Less"

\* a query under high half 0, where the lower bound falls back to MIN, that
\* returns two keys and leaves a third, of another high half, out
C2_Witness ==
    /\ IsSome(scan)
    /\ get_hash_low_half_min(Unwrap(scan).k0) = None
    /\ Unwrap(scan).lower = MIN
    /\ Len(Unwrap(scan).out) = 2
    /\ Cardinality(map) = 3

\* C3: from_raw_dual(h, l) is None for h = l = 0; otherwise it is a key with the
\* word (h << 32) | l, whose high half reads back as h and low half as l.
C3_PackUnpack ==
    op = "from_raw_dual" =>
        LET h == arg[1]
            l == arg[2]
        IN  IF h = U32_ZERO /\ l = U32_ZERO
            THEN ret = None
            ELSE /\ IsSome(ret)
                 /\ get_hash_raw(Unwrap(ret)) = Word(h, l)
                 /\ get_hash_high_half(Unwrap(ret)) = h
                 /\ get_hash_low_half(Unwrap(ret)) = l

\* a pair of two different non-zero halves was packed
C3_Witness ==
    /\ op = "from_raw_dual"
    /\ IsSome(ret)
    /\ arg[1] # U32_ZERO
    /\ arg[2] # U32_ZERO
    /\ arg[1] # arg[2]

\* C4: swapped(k) is a key whose high half is k's low half and whose low half is
\* k's high half.
C4_SwapExchanges ==
    op = "swapped" =>
        /\ IsSome(ret)
        /\ get_hash_high_half(Unwrap(ret)) = get_hash_low_half(Unwrap(self))
        /\ get_hash_low_half(Unwrap(ret)) = get_hash_high_half(Unwrap(self))

\* C5: swapped(k) is never None, and swapping its result gives k back.
C5_SwapInvolution ==
    op = "swapped" =>
        /\ IsSome(ret)
        /\ swapped(Unwrap(ret)) = self

\* a key with high half 0 and a non-zero low half was swapped
C5_Witness ==
    /\ op = "swapped"
    /\ IsSome(ret)
    /\ Hi(Unwrap(self)) = U32_ZERO
    /\ Lo(Unwrap(self)) # U32_ZERO

\* C6: get_hash_low_half_max(k) meets the precondition of the unchecked
\* constructor and yields a key with low half 0xFFFFFFFF and k's high half.
C6_MaximumBound ==
    /\ ~ub
    /\ op = "get_hash_low_half_max" =>
        /\ NonZero(ret)
        /\ get_hash_low_half(ret) = U32_MAX
        /\ get_hash_high_half(ret) = get_hash_high_half(Unwrap(self))

\* the maximum bound of a key with high half 0 and a low half other than all ones
C6_Witness ==
    /\ op = "get_hash_low_half_max"
    /\ Hi(Unwrap(self)) = U32_ZERO
    /\ Lo(Unwrap(self)) # U32_MAX

\* C7: get_hash_low_half_min(k) is None exactly when k's high half is 0;
\* otherwise it is a key with k's high half and low half 0.
C7_MinimumBound ==
    op = "get_hash_low_half_min" =>
        /\ (ret = None) <=> (get_hash_high_half(Unwrap(self)) = U32_ZERO)
        /\ IsSome(ret) =>
            /\ get_hash_high_half(Unwrap(ret)) = get_hash_high_half(Unwrap(self))
            /\ get_hash_low_half(Unwrap(ret)) = U32_ZERO

\* the minimum bound of a key with high half 0 gave None
C7_Witness ==
    /\ op = "get_hash_low_half_min"
    /\ ret = None
    /\ Hi(Unwrap(self)) = U32_ZERO

\* C8: two keys compare as their high halves when these differ, whatever the
\* low halves, and as their low halves when the high halves are equal.
C8_Ordering ==
    op = "cmp" =>
        LET a == Unwrap(self)
            b == arg[1]
        IN  ret = IF get_hash_high_half(a) # get_hash_high_half(b)
                  THEN CmpUnsigned(get_hash_high_half(a), get_hash_high_half(b))
                  ELSE CmpUnsigned(get_hash_low_half(a), get_hash_low_half(b))

\* a comparison the high halves decide against the low halves, with the top
\* bit of the word set on one side only
C8_Witness ==
    /\ op = "cmp"
    /\ ret = "Less"
    /\ arg[1].hash[U64_BITS - 1] = 1
    /\ Unwrap(self).hash[U64_BITS - 1] = 0
    /\ CmpUnsigned(Lo(Unwrap(self)), Lo(arg[1])) = "Greater"

\* C9: with_high_half_raw(k, v) is None exactly when k's low half and v are both
\* 0, and otherwise a key with high half v and k's low half; with_low_half_raw(k, v)
\* is None exactly when k's high half and v are both 0, and otherwise a key with
\* low half v and k's high half.
C9_HalfReplacement ==
    /\ op = "with_high_half_raw" =>
        LET k == Unwrap(self)
            v == arg[1]
        IN  /\ (ret = None) <=> (get_hash_low_half(k) = U32_ZERO /\ v = U32_ZERO)
            /\ IsSome(ret) =>
                /\ get_hash_high_half(Unwrap(ret)) = v
                /\ get_hash_low_half(Unwrap(ret)) = get_hash_low_half(k)
    /\ op = "with_low_half_raw" =>
        LET k == Unwrap(self)
            v == arg[1]
        IN  /\ (ret = None) <=> (get_hash_high_half(k) = U32_ZERO /\ v = U32_ZERO)
            /\ IsSome(ret) =>
                /\ get_hash_low_half(Unwrap(ret)) = v
                /\ get_hash_high_half(Unwrap(ret)) = get_hash_high_half(k)

\* the high half of a key with two non-zero halves was replaced by another value
C9_Witness ==
    /\ op = "with_high_half_raw"
    /\ IsSome(ret)
    /\ Hi(Unwrap(self)) # U32_ZERO
    /\ Lo(Unwrap(self)) # U32_ZERO
    /\ arg[1] # Hi(Unwrap(self))
    /\ arg[1] # Lo(Unwrap(self))

\* C10: TryFrom<u64> fails exactly for the word 0 and otherwise gives a key with
\* that word; TryFrom<&[u8]> and TryFrom<&str> fail exactly when the FNV-1a hash
\* of the input is 0 and otherwise give a key with that hash as high half and low
\* half 0; each entry point has its own error message.
C10_FallibleConversions ==
    LET msgU64 == try_from_u64(U64_ZERO)[2]
        msgBytes == try_from_bytes(<<204, 36, 49, 196>>)[2]
        msgStr == try_from_str(<<98, 48, 99, 99, 114, 104, 103>>)[2]
    IN  /\ op = "try_from_u64" =>
            /\ IsErr(ret) <=> (arg[1] = U64_ZERO)
            /\ IsOk(ret) => get_hash_raw(ret[2]) = arg[1]
            /\ IsErr(ret) => (ret[2] = msgU64 /\ ret[2] \notin {msgBytes, msgStr})
        /\ op = "try_from_bytes" =>
            /\ IsErr(ret) <=> (fnv1a_hash_32(arg[1]) = U32_ZERO)
            /\ IsOk(ret) =>
                /\ get_hash_high_half(ret[2]) = fnv1a_hash_32(arg[1])
                /\ get_hash_low_half(ret[2]) = U32_ZERO
            /\ IsErr(ret) => (ret[2] = msgBytes /\ ret[2] \notin {msgU64, msgStr})
        /\ op = "try_from_str" =>
            /\ IsErr(ret) <=> (fnv1a_hash_str_32(arg[1]) = U32_ZERO)
            /\ IsOk(ret) =>
                /\ get_hash_high_half(ret[2]) = fnv1a_hash_str_32(arg[1])
                /\ get_hash_low_half(ret[2]) = U32_ZERO
            /\ IsErr(ret) => (ret[2] = msgStr /\ ret[2] \notin {msgU64, msgBytes})

\* a string whose hash is 0 was refused
C10_Witness ==
    /\ op = "try_from_str"
    /\ IsErr(ret)
    /\ Len(arg[1]) > 0

====
